---- MODULE Spec2Model ----
(***************************************************************************)
(* A model of json-writer-rs (src/src/lib.rs): the object/array builders,   *)
(* the value encodings, the string escaping scan and the output sink.       *)
(* Text is a sequence of bytes (0..255).                                     *)
(***************************************************************************)
EXTENDS Integers, Sequences, FiniteSets, TLC

VARIABLES
  sink,   \* the caller's std::fmt::Write: [buf: bytes written, tag: who wrote each byte]
  last,   \* the last caller-level operation: its name, result and write attempts
  bld,    \* every builder handed to the caller so far, by id (creation order)
  health, \* the sink: "reliable" (never rejects a write, as String), "up" (may fail), "down" (has failed)
  nops,   \* number of caller-level operations made so far (bounds the run)
  scan,   \* the locals of write_part_of_string_impl, run one loop iteration at a time
  enc,    \* one call of to_json_string: the value given and whether it has been encoded
  dest    \* the bytes the caller has drained from the sink to an external destination

vars == <<sink, last, bld, health, nops, scan, enc, dest>>

----------------------------------------------------------------------------
(* Bounds of the model *)

\* caller-level operations in one run on a reliable sink
MaxOps == 4
\* caller-level operations in one run on a sink that may fail
MaxOpsFault == 3
\* characters of an input text of the stepwise escaping scan
MaxLen == 3
\* the latest write attempt of an operation at which the sink may start to fail
MaxFailPos == 10

----------------------------------------------------------------------------
(* Bytes the code names *)

QUOTE == 34
BACKSLASH == 92
SLASH == 47
LBRACE == 123
RBRACE == 125
LBRACKET == 91
RBRACKET == 93
COMMA == 44
COLON == 58
LETTER_u == 117
LETTER_b == 98
LETTER_f == 102
LETTER_n == 110
LETTER_r == 114
LETTER_t == 116

Byte == 0..255

\* "null", "true", "false"
NULL_STR == <<110, 117, 108, 108>>
TRUE_STR == <<116, 114, 117, 101>>
FALSE_STR == <<102, 97, 108, 115, 101>>

\* static HEX: [u8; 16] = *b"0123456789ABCDEF" (1-based here)
HEX == <<48, 49, 50, 51, 52, 53, 54, 55, 56, 57, 65, 66, 67, 68, 69, 70>>

----------------------------------------------------------------------------
(* The sink: std::fmt::Write.  A writer value w is the sink as an operation  *)
(* sees it: buf and tag are the sink's content, att the write attempts of    *)
(* the current caller-level operation, fail the attempts (by position in     *)
(* the operation) that the sink rejects.   A rejected write appends nothing.  *)
(* Results are [w |-> writer after, r |-> "ok" | "err"].                     *)

Tag(role, by) == [role |-> role, by |-> by]

Ok(w) == [w |-> w, r |-> "ok"]

\* A write failure is not transient: from the attempt w.fail of the operation on
\* (0: never) the sink rejects every write.
Rejects(first, k) == first # 0 /\ k >= first

write_str(w, s, tg) ==
  IF Rejects(w.fail, Len(w.att) + 1)
    THEN [w |-> [w EXCEPT !.att = Append(@, [ok |-> FALSE, s |-> s, tg |-> tg])],
          r |-> "err"]
    ELSE [w |-> [w EXCEPT !.buf = @ \o s,
                          !.tag = @ \o [i \in 1..Len(s) |-> tg],
                          !.att = Append(@, [ok |-> TRUE, s |-> s, tg |-> tg])],
          r |-> "ok"]

write_char(w, c, tg) == write_str(w, <<c>>, tg)

\* `let v = e;`: e is evaluated once and named
Bind(v, K(_)) == K(v)

\* `e?`: a failure is returned as it is, otherwise the code goes on with the result
AndThen(r, K(_)) == IF r.r = "err" THEN r ELSE K(r)

\* The result of a write made through `&mut self`, with the builder after it.
With(r, self) == [w |-> r.w, self |-> self, r |-> r.r]

----------------------------------------------------------------------------
(* String escaping *)

\* A slip in the table: the control characters are left as they are.
get_replacements_nocontrol ==
  [c \in Byte |-> IF c \in {QUOTE, BACKSLASH, SLASH} THEN c ELSE 0]

get_replacements ==
  LET r0 == [c \in Byte |-> 0]
      r1 == [r0 EXCEPT ![QUOTE] = QUOTE, ![BACKSLASH] = BACKSLASH, ![SLASH] = SLASH]
      \* while c < 0x20 { result[c] = b'u' }
      r2 == [c \in Byte |-> IF c < 32 THEN LETTER_u ELSE r1[c]]
      r3 == [r2 EXCEPT ![8] = LETTER_b, ![12] = LETTER_f, ![10] = LETTER_n,
                       ![13] = LETTER_r, ![9] = LETTER_t]
  IN r3

REPLACEMENTS == get_replacements

\* A slip in the unicode escape: the two hexadecimal digits in the other order.
EscapeBytes_swapped(cur_byte, replacement) ==
  IF replacement = LETTER_u
    THEN <<BACKSLASH, LETTER_u, 48, 48, HEX[(cur_byte % 16) + 1], HEX[(cur_byte \div 16) + 1]>>
    ELSE <<BACKSLASH, replacement>>

\* The escape sequence written for cur_byte, whose table entry is replacement # 0.
EscapeBytes(cur_byte, replacement) ==
  IF replacement = LETTER_u
    THEN <<BACKSLASH, LETTER_u, 48, 48, HEX[(cur_byte \div 16) + 1], HEX[(cur_byte % 16) + 1]>>
    ELSE <<BACKSLASH, replacement>>

\* A slip in the loop: num_bytes_written = index, so the escaped byte is flushed
\* again, raw, with the next run.
ScanIter_stale(w, input, index, nbw, tg) ==
  LET cur_byte == input[index + 1]
  IN IF REPLACEMENTS[cur_byte] # 0
       THEN Bind(AndThen(IF nbw < index
                           THEN write_str(w, SubSeq(input, nbw + 1, index), tg)
                           ELSE Ok(w),
                         LAMBDA r1 : write_str(r1.w, EscapeBytes(cur_byte, REPLACEMENTS[cur_byte]), tg)),
                 LAMBDA r2 : [w |-> r2.w, r |-> r2.r, nbw |-> index])
       ELSE [w |-> w, r |-> "ok", nbw |-> nbw]

\* One iteration of the while loop, at index (0-based) with num_bytes_written = nbw.
\* Returns the writer, the result and the new num_bytes_written.
ScanIter(w, input, index, nbw, tg) ==
  LET cur_byte == input[index + 1]
  IN IF REPLACEMENTS[cur_byte] # 0
       THEN Bind(AndThen(IF nbw < index
                           THEN write_str(w, SubSeq(input, nbw + 1, index), tg)
                           ELSE Ok(w),
                         LAMBDA r1 : write_str(r1.w, EscapeBytes(cur_byte, REPLACEMENTS[cur_byte]), tg)),
                 LAMBDA r2 : [w |-> r2.w, r |-> r2.r,
                              nbw |-> IF r2.r = "err" THEN nbw ELSE index + 1])
       ELSE [w |-> w, r |-> "ok", nbw |-> nbw]

\* A slip after the loop: the trailing run is flushed even when it is empty.
ScanTail_always(w, input, nbw, tg) ==
  write_str(w, SubSeq(input, nbw + 1, Len(input)), tg)

\* The code after the loop: flush the trailing run.
ScanTail(w, input, nbw, tg) ==
  IF nbw < Len(input)
    THEN write_str(w, SubSeq(input, nbw + 1, Len(input)), tg)
    ELSE Ok(w)

RECURSIVE ScanLoop(_, _, _, _, _)
ScanLoop(w, input, index, nbw, tg) ==
  IF index < Len(input)
    THEN Bind(ScanIter(w, input, index, nbw, tg),
              LAMBDA it : IF it.r = "err"
                            THEN [w |-> it.w, r |-> "err"]
                            ELSE ScanLoop(it.w, input, index + 1, it.nbw, tg))
    ELSE ScanTail(w, input, nbw, tg)

write_part_of_string_impl(w, input, tg) == ScanLoop(w, input, 0, 0, tg)

write_part_of_string(w, input, tg) == write_part_of_string_impl(w, input, tg)

write_string(w, input, tg) ==
  AndThen(write_char(w, QUOTE, tg), LAMBDA r1 :
  AndThen(write_part_of_string_impl(r1.w, input, tg), LAMBDA r2 :
  write_char(r2.w, QUOTE, tg)))

----------------------------------------------------------------------------
(* Values: the types that implement JSONWriterValue *)

VInt(n) == [kind |-> "int", i |-> n]
VStr(s) == [kind |-> "str", s |-> s]
VBool(b) == [kind |-> "bool", b |-> b]
VNull == [kind |-> "null"]
VNone == [kind |-> "none"]
VSome(v) == [kind |-> "some", v |-> v]
\* &[Item] and &Vec<Item>: the elements in order
VSlice(items) == [kind |-> "slice", items |-> items]
VVec(items) == [kind |-> "vec", items |-> items]
\* &HashMap / &BTreeMap: the <<key, value>> pairs in the container's iteration order
VMap(pairs) == [kind |-> "map", pairs |-> pairs]

\* itoa::Buffer::format: minimal decimal digits, '-' for a negative number
RECURSIVE Digits(_)
Digits(n) == IF n < 10 THEN <<48 + n>> ELSE Append(Digits(n \div 10), 48 + (n % 10))

Itoa(n) == IF n < 0 THEN <<45>> \o Digits(0 - n) ELSE Digits(n)

\* The tag of bytes written by a value encoding (no builder handle wrote them).
DataTag == Tag("data", 0)

----------------------------------------------------------------------------
(* Floating point, to scale.  A finite value is n / FloatGrid with a sign;   *)
(* a format holds the values whose significand (n without its trailing zero  *)
(* bits) is below the format's limit: 2^3 here for the 2^24 of f32, 2^6 for   *)
(* the 2^53 of f64.  Every f32 value is an f64 value, as in Rust.             *)

FloatGrid == 2^6
\* finite values are taken below MaxFloatNum / FloatGrid
MaxFloatNum == 2^8
F32_SIGNIFICAND == 2^3
F64_SIGNIFICAND == 2^6
\* decimal places that write any n / FloatGrid exactly
MaxPlaces == 6

RECURSIVE OddPart(_)
OddPart(n) == IF n % 2 = 0 THEN OddPart(n \div 2) ELSE n

FloatNums(sig) == {n \in 0..MaxFloatNum : n = 0 \/ OddPart(n) < sig}

NaN == [c |-> "nan"]
Infinity(neg) == [c |-> "inf", neg |-> neg]
Finite(neg, n) == [c |-> "finite", neg |-> neg, n |-> n]

Floats(sig) ==
  {NaN} \cup {Infinity(neg) : neg \in BOOLEAN}
        \cup {Finite(neg, n) : neg \in BOOLEAN, n \in FloatNums(sig) \ {MaxFloatNum}}

VF64(f) == [kind |-> "f64", f |-> f]
VF32(f) == [kind |-> "f32", f |-> f]

\* f64::is_finite
is_finite(f) == f.c = "finite"

\* `self as f64` on an f32: exact
as_f64(f) == f

Pow10(j) == 10^j

Dist(a, b) == IF a < b THEN b - a ELSE a - b

\* Parsing the decimal d / 10^j gives n / FloatGrid in the format: no other value
\* of the format is as near to the decimal (round to nearest).
RoundsTo(sig, d, j, n) ==
  \A u \in FloatNums(sig) \ {n} :
    Dist(d * FloatGrid, n * Pow10(j)) < Dist(d * FloatGrid, u * Pow10(j))

\* the two decimals of j places around n / FloatGrid, as d of d / 10^j
Around(n, j) == {(n * Pow10(j)) \div FloatGrid, ((n * Pow10(j)) \div FloatGrid) + 1}

\* the fewest decimal places with which a decimal parses back to n / FloatGrid
ShortestPlaces(sig, n) ==
  CHOOSE j \in 0..MaxPlaces :
    /\ \E d \in Around(n, j) : RoundsTo(sig, d, j, n)
    /\ \A k \in 0..(j - 1) : \A d \in Around(n, k) : ~RoundsTo(sig, d, k, n)

\* among the decimals of j places that parse back, the nearest to the value
ShortestDigits(sig, n, j) ==
  CHOOSE d \in Around(n, j) :
    /\ RoundsTo(sig, d, j, n)
    /\ \A e \in Around(n, j) :
         RoundsTo(sig, e, j, n) =>
           \/ Dist(d * FloatGrid, n * Pow10(j)) < Dist(e * FloatGrid, n * Pow10(j))
           \/ /\ Dist(d * FloatGrid, n * Pow10(j)) = Dist(e * FloatGrid, n * Pow10(j))
              /\ (d % 2 = 0 \/ d = e)

\* d / 10^j in the notation of ryu: always a decimal point, "2.0" for 2
DecimalText(neg, d, j) ==
  (IF neg THEN <<45>> ELSE <<>>)
    \o Digits(d \div Pow10(j)) \o <<46>>
    \o (IF j = 0 THEN <<48>>
                  ELSE [i \in 1..j |-> 48 + ((d \div Pow10(j - i)) % 10)])

\* the shortest decimal text that parses back to f in the format
ShortestText(sig, f) ==
  Bind(ShortestPlaces(sig, f.n), LAMBDA j :
  DecimalText(f.neg, ShortestDigits(sig, f.n, j), j))

\* ryu::Buffer::format_finite(value: f64)
format_finite(value) == ShortestText(F64_SIGNIFICAND, value)

\* result.ends_with(".0")
ends_with_dot0(result) ==
  Len(result) >= 2 /\ SubSeq(result, Len(result) - 1, Len(result)) = <<46, 48>>

\* if result.ends_with(".0") { result = result.get_unchecked(..result.len() - 2) }
strip_dot0(result) ==
  IF ends_with_dot0(result) THEN SubSeq(result, 1, Len(result) - 2) ELSE result

write_float(w, value) ==
  IF ~is_finite(value)
    THEN write_str(w, NULL_STR, DataTag)
    ELSE write_str(w, strip_dot0(format_finite(value)), DataTag)

----------------------------------------------------------------------------
(* The builders.  self is [kind, empty, id]; id 0 is a builder that a        *)
(* container encoding keeps to itself.  Operations on a builder return       *)
(* [w, self, r].                                                             *)

\* A slip: the result of writing the opening bracket is dropped.
obj_new_unchecked(w, id) ==
  Bind(write_char(w, LBRACE, Tag("open", id)), LAMBDA o :
  [w |-> o.w, r |-> "ok", self |-> [kind |-> "obj", empty |-> TRUE, id |-> id]])

obj_new(w, id) ==
  AndThen(write_char(w, LBRACE, Tag("open", id)), LAMBDA o :
  [w |-> o.w, r |-> "ok", self |-> [kind |-> "obj", empty |-> TRUE, id |-> id]])

arr_new(w, id) ==
  AndThen(write_char(w, LBRACKET, Tag("open", id)), LAMBDA o :
  [w |-> o.w, r |-> "ok", self |-> [kind |-> "arr", empty |-> TRUE, id |-> id]])

\* A slip: the flag is kept but the comma is never written.
obj_write_comma_silent(w, self) == [w |-> w, self |-> [self EXCEPT !.empty = FALSE], r |-> "ok"]

obj_write_comma(w, self) ==
  IF self.empty
    THEN [w |-> w, self |-> [self EXCEPT !.empty = FALSE], r |-> "ok"]
    ELSE With(write_char(w, COMMA, Tag("comma", self.id)), self)

\* A slip: whether something was appended is read off the sink instead of the flag.
arr_write_comma_peek(w, self) ==
  IF w.buf # <<>> /\ w.buf[Len(w.buf)] = LBRACKET
    THEN [w |-> w, self |-> [self EXCEPT !.empty = FALSE], r |-> "ok"]
    ELSE With(write_char(w, COMMA, Tag("comma", self.id)), [self EXCEPT !.empty = FALSE])

\* A slip: the comma is written whether or not the array is empty.
arr_write_comma_always(w, self) ==
  With(write_char(w, COMMA, Tag("comma", self.id)), [self EXCEPT !.empty = FALSE])

arr_write_comma(w, self) ==
  IF self.empty
    THEN [w |-> w, self |-> [self EXCEPT !.empty = FALSE], r |-> "ok"]
    ELSE With(write_char(w, COMMA, Tag("comma", self.id)), self)

\* A slip: the result of write_comma is dropped instead of returned with `?`.
obj_write_key_nocheck(w, self, key) ==
  Bind(obj_write_comma(w, self), LAMBDA c :
  With(AndThen(write_string(c.w, key, Tag("key", self.id)), LAMBDA k :
               write_char(k.w, COLON, Tag("colon", self.id))),
       c.self))

obj_write_key(w, self, key) ==
  AndThen(obj_write_comma(w, self), LAMBDA c :
  With(AndThen(write_string(c.w, key, Tag("key", self.id)), LAMBDA k :
               write_char(k.w, COLON, Tag("colon", self.id))),
       c.self))

\* A slip: a destructor that writes nothing.
obj_drop_nowrite(w, self) == w

\* Drop for JSONObjectWriter / JSONArrayWriter: the result of the write is ignored.
obj_drop(w, self) == write_char(w, RBRACE, Tag("close", self.id)).w

arr_drop(w, self) == write_char(w, RBRACKET, Tag("close", self.id)).w

\* A slip: end() without mem::forget, so the destructor runs when end() returns.
forget_runs_drop(w, self) == IF self.kind = "obj" THEN obj_drop(w, self) ELSE arr_drop(w, self)

\* std::mem::forget(self) in end(): the destructor of self does not run.
forget(w, self) == w

\* A slip: end() that ignores the result of its write, as Drop does.
obj_end_ok(w, self) ==
  [w |-> forget(write_char(w, RBRACE, Tag("close", self.id)).w, self), r |-> "ok"]

obj_end(w, self) ==
  Bind(write_char(w, RBRACE, Tag("close", self.id)), LAMBDA result :
  [w |-> forget(result.w, self), r |-> result.r])

\* A slip: end() takes back the last byte written before it closes the array.
arr_end_rewind(w, self) ==
  Bind(write_char([w EXCEPT !.buf = SubSeq(@, 1, Len(@) - 1),
                            !.tag = SubSeq(@, 1, Len(@) - 1)],
                  RBRACKET, Tag("close", self.id)), LAMBDA result :
  [w |-> forget(result.w, self), r |-> result.r])

arr_end(w, self) ==
  Bind(write_char(w, RBRACKET, Tag("close", self.id)), LAMBDA result :
  [w |-> forget(result.w, self), r |-> result.r])

\* writer_mut(&mut self) -> &mut W: the sink itself, for the caller to use
obj_writer_mut(w, self) == w

arr_writer_mut(w, self) == w

RECURSIVE write_json(_, _)
RECURSIVE arr_value(_, _, _)
RECURSIVE obj_member(_, _, _, _)
RECURSIVE SliceLoop(_, _, _, _)
RECURSIVE MapLoop(_, _, _, _)

\* A slip in the loop: the elements are visited last to first.
SliceLoop_backwards(w, array, items, i) ==
  IF i > Len(items)
    THEN [w |-> w, self |-> array, r |-> "ok"]
    ELSE AndThen(arr_value(w, array, items[Len(items) + 1 - i]), LAMBDA v :
         SliceLoop(v.w, v.self, items, i + 1))

\* for item in self.iter() { array.value(item)?; }
SliceLoop(w, array, items, i) ==
  IF i > Len(items)
    THEN [w |-> w, self |-> array, r |-> "ok"]
    ELSE AndThen(arr_value(w, array, items[i]), LAMBDA v :
         SliceLoop(v.w, v.self, items, i + 1))

\* for (key, value) in self.iter() { obj.member(key.as_ref(), value)?; }
MapLoop(w, obj, pairs, i) ==
  IF i > Len(pairs)
    THEN [w |-> w, self |-> obj, r |-> "ok"]
    ELSE AndThen(obj_member(w, obj, pairs[i][1], pairs[i][2]), LAMBDA m :
         MapLoop(m.w, m.self, pairs, i + 1))

\* impl JSONWriterValue for &[Item]: the array builder is a local, dropped when
\* the function returns, with Ok(()) or through `?`.
write_json_slice(w, items) ==
  AndThen(arr_new(w, 0), LAMBDA array :
  Bind(SliceLoop(array.w, array.self, items, 1), LAMBDA body :
  [w |-> arr_drop(body.w, body.self), r |-> body.r]))

\* impl JSONWriterValue for &HashMap / &BTreeMap
write_json_map(w, pairs) ==
  AndThen(obj_new(w, 0), LAMBDA obj :
  Bind(MapLoop(obj.w, obj.self, pairs, 1), LAMBDA body :
  [w |-> obj_drop(body.w, body.self), r |-> body.r]))

write_json(w, v) ==
  CASE v.kind = "str" -> write_string(w, v.s, DataTag)
    [] v.kind = "int" -> write_str(w, Itoa(v.i), DataTag)
    [] v.kind = "bool" -> write_str(w, IF v.b THEN TRUE_STR ELSE FALSE_STR, DataTag)
    [] v.kind = "null" -> write_str(w, NULL_STR, DataTag)
    [] v.kind = "f64" -> write_float(w, v.f)
    [] v.kind = "f32" -> write_float(w, as_f64(v.f))
    [] v.kind = "none" -> write_str(w, NULL_STR, DataTag)
    [] v.kind = "some" -> write_json(w, v.v)
    [] v.kind = "vec" -> write_json_slice(w, v.items)
    [] v.kind = "slice" -> write_json_slice(w, v.items)
    [] v.kind = "map" -> write_json_map(w, v.pairs)

\* A slip: the value is written before its key.
obj_member_value_first(w, self, key, value) ==
  Bind(write_json(w, value), LAMBDA j :
  IF j.r = "err" THEN With(j, self) ELSE obj_write_key(j.w, self, key))

obj_member(w, self, key, value) ==
  AndThen(obj_write_key(w, self, key), LAMBDA k :
  With(write_json(k.w, value), k.self))

arr_value(w, self, value) ==
  AndThen(arr_write_comma(w, self), LAMBDA c :
  With(write_json(c.w, value), c.self))

\* What object()/array() return after new(): [w, self, r] and, when r = "ok", the
\* child builder.
Child(n, self) ==
  IF n.r = "err" THEN With(n, self)
  ELSE [w |-> n.w, self |-> self, r |-> "ok", child |-> n.self]

obj_object(w, self, key, id) ==
  AndThen(obj_write_key(w, self, key), LAMBDA k : Child(obj_new(k.w, id), k.self))

obj_array(w, self, key, id) ==
  AndThen(obj_write_key(w, self, key), LAMBDA k : Child(arr_new(k.w, id), k.self))

arr_object(w, self, id) ==
  AndThen(arr_write_comma(w, self), LAMBDA c : Child(obj_new(c.w, id), c.self))

arr_array(w, self, id) ==
  AndThen(arr_write_comma(w, self), LAMBDA c : Child(arr_new(c.w, id), c.self))

\* to_json_string(value): the value written into a fresh String
to_json_string(value) ==
  write_json([buf |-> <<>>, tag |-> <<>>, att |-> <<>>, fail |-> 0], value).w.buf

\* write_value(output_buffer, value)
write_value(w, value) == write_json(w, value)

----------------------------------------------------------------------------
(* The caller: inputs, the borrow rules, and one action per public operation *)

\* "number", and a key with bytes that need escaping: {"
KEY_NUMBER == <<110, 117, 109, 98, 101, 114>>
KEY_ESC == <<LBRACE, QUOTE>>
Keys == {KEY_NUMBER, KEY_ESC}
ChildKeys == {KEY_ESC}

\* values appended through a builder
Values == { VInt(42), VInt(43), VSlice(<<VInt(1), VInt(2)>>) }

\* values written on the sink itself
TopValues ==
  Values \cup
  { VStr(<<97, 10>>), VNone, VNull, VSome(VInt(42)), VBool(FALSE), VSlice(<<>>),
    VVec(<<VSlice(<<VInt(1)>>), VSlice(<<>>)>>),
    VMap(<<<<KEY_ESC, VInt(1)>>, <<KEY_NUMBER, VBool(TRUE)>>>>), VMap(<<>>) }

\* Where in the operation the sink starts to fail (0: not in this operation).
FailFrom ==
  CASE health = "reliable" -> {0}
    [] health = "up" -> 0..MaxFailPos
    [] health = "down" -> {1}

MoreOps == nops < (IF health = "reliable" THEN MaxOps ELSE MaxOpsFault)

Ids == 1..Len(bld)

Live(b) == bld[b].st = "live"

\* A slip in the signatures: a child that does not borrow its parent.
Usable_unborrowed(b) == bld[b].st = "live"

\* A builder holds `&'a mut W`; a child made by object()/array() borrows its
\* parent (`&'b mut self`) for as long as the child exists, so the parent can be
\* used, ended or dropped only when it has no live child.
Usable(b) == Live(b) /\ \A c \in Ids : ~(Live(c) /\ bld[c].parent = b)

\* The sink itself can be borrowed only when no builder holds it.
SinkFree == \A b \in Ids : ~Live(b)

Self(b) == [kind |-> bld[b].kind, empty |-> bld[b].empty, id |-> b]

W0(first) == [buf |-> sink.buf, tag |-> sink.tag, att |-> <<>>, fail |-> first]

Failed(att) == \E i \in 1..Len(att) : ~att[i].ok

\* What every operation leaves behind: the sink and the record of the operation.
Commit(w, op, kind, res) ==
  /\ sink' = [buf |-> w.buf, tag |-> w.tag]
  /\ last' = [op |-> op, kind |-> kind, res |-> res, att |-> w.att]
  /\ health' = IF Failed(w.att) THEN "down" ELSE health
  /\ nops' = nops + 1
  /\ UNCHANGED <<scan, enc, dest>>

NewBuilder(self, parent) ==
  [kind |-> self.kind, empty |-> self.empty, parent |-> parent, st |-> "live",
   n |-> 0, manual |-> FALSE, hist |-> <<>>]

\* What a builder remembers of an append: the key (<<>> in an array), the value or
\* the child, and where in the sink the member starts (after its separator).
LeafItem(key, value, at) == [t |-> "leaf", k |-> key, v |-> value, at |-> at]
ChildItem(key, id, at) == [t |-> "child", k |-> key, c |-> id, at |-> at]
\* the separator step the caller made by hand (write_key, or write_comma on an
\* array), and the value the caller wrote on the sink itself
SepItem(key, at) == [t |-> "sep", k |-> key, at |-> at]
RawItem(value, at) == [t |-> "raw", v |-> value, at |-> at]

ItemStart(w) ==
  Len(sink.buf) + 1 + (IF Len(w.att) > 0 /\ w.att[1].tg.role = "comma" THEN 1 ELSE 0)

\* The parent after an append: its flag, and, when the append returned Ok, the item.
Appended(b, self, r, item) ==
  [bld[b] EXCEPT !.empty = self.empty,
                 !.n = IF r = "ok" THEN @ + 1 ELSE @,
                 !.hist = IF r = "ok" THEN Append(@, item) ELSE @]

\* The builder after a step the caller made by hand.
Noted(b, self, r, item) ==
  [bld[b] EXCEPT !.empty = self.empty,
                 !.manual = TRUE,
                 !.hist = IF r = "ok" THEN Append(@, item) ELSE @]

NoOp == [op |-> "none", kind |-> "none", res |-> "none", att |-> <<>>]

Init ==
  /\ sink = [buf |-> <<>>, tag |-> <<>>]
  /\ last = NoOp
  /\ bld = <<>>
  /\ health = "reliable"
  /\ nops = 0
  /\ scan = [pc |-> "idle"]
  /\ enc = [pc |-> "idle"]
  /\ dest = <<>>

InitFault ==
  /\ sink = [buf |-> <<>>, tag |-> <<>>]
  /\ last = NoOp
  /\ bld = <<>>
  /\ health = "up"
  /\ nops = 0
  /\ scan = [pc |-> "idle"]
  /\ enc = [pc |-> "idle"]
  /\ dest = <<>>

\* write_object(&mut buffer)
WriteObject ==
  /\ MoreOps /\ SinkFree
  /\ \E first \in FailFrom :
       Bind(obj_new(W0(first), Len(bld) + 1), LAMBDA r :
         /\ Commit(r.w, "write_object", "obj", r.r)
         /\ bld' = IF r.r = "ok" THEN Append(bld, NewBuilder(r.self, 0)) ELSE bld)

\* write_array(&mut buffer)
WriteArray ==
  /\ MoreOps /\ SinkFree
  /\ \E first \in FailFrom :
       Bind(arr_new(W0(first), Len(bld) + 1), LAMBDA r :
         /\ Commit(r.w, "write_array", "arr", r.r)
         /\ bld' = IF r.r = "ok" THEN Append(bld, NewBuilder(r.self, 0)) ELSE bld)

\* The registry after object()/array() on b returned r.
WithChild(b, r, key) ==
  IF r.r = "ok"
    THEN Append([bld EXCEPT ![b] = Appended(b, r.self, "ok", ChildItem(key, Len(bld) + 1, ItemStart(r.w)))],
                NewBuilder(r.child, b))
    ELSE [bld EXCEPT ![b].empty = r.self.empty]

ObjObject ==
  /\ MoreOps
  /\ \E b \in Ids, key \in ChildKeys, first \in FailFrom :
       /\ Usable(b) /\ bld[b].kind = "obj"
       /\ Bind(obj_object(W0(first), Self(b), key, Len(bld) + 1), LAMBDA r :
            /\ Commit(r.w, "object", "obj", r.r)
            /\ bld' = WithChild(b, r, key))

ObjArray ==
  /\ MoreOps
  /\ \E b \in Ids, key \in ChildKeys, first \in FailFrom :
       /\ Usable(b) /\ bld[b].kind = "obj"
       /\ Bind(obj_array(W0(first), Self(b), key, Len(bld) + 1), LAMBDA r :
            /\ Commit(r.w, "array", "obj", r.r)
            /\ bld' = WithChild(b, r, key))

ArrObject ==
  /\ MoreOps
  /\ \E b \in Ids, first \in FailFrom :
       /\ Usable(b) /\ bld[b].kind = "arr"
       /\ Bind(arr_object(W0(first), Self(b), Len(bld) + 1), LAMBDA r :
            /\ Commit(r.w, "object", "arr", r.r)
            /\ bld' = WithChild(b, r, <<>>))

ArrArray ==
  /\ MoreOps
  /\ \E b \in Ids, first \in FailFrom :
       /\ Usable(b) /\ bld[b].kind = "arr"
       /\ Bind(arr_array(W0(first), Self(b), Len(bld) + 1), LAMBDA r :
            /\ Commit(r.w, "array", "arr", r.r)
            /\ bld' = WithChild(b, r, <<>>))

ObjMember ==
  /\ MoreOps
  /\ \E b \in Ids, key \in Keys, value \in Values, first \in FailFrom :
       /\ Usable(b) /\ bld[b].kind = "obj"
       /\ Bind(obj_member(W0(first), Self(b), key, value), LAMBDA r :
            /\ Commit(r.w, "member", "obj", r.r)
            /\ bld' = [bld EXCEPT ![b] = Appended(b, r.self, r.r, LeafItem(key, value, ItemStart(r.w)))])

ArrValue ==
  /\ MoreOps
  /\ \E b \in Ids, value \in Values, first \in FailFrom :
       /\ Usable(b) /\ bld[b].kind = "arr"
       /\ Bind(arr_value(W0(first), Self(b), value), LAMBDA r :
            /\ Commit(r.w, "value", "arr", r.r)
            /\ bld' = [bld EXCEPT ![b] = Appended(b, r.self, r.r, LeafItem(<<>>, value, ItemStart(r.w)))])

\* The low-level operations: the caller writes the value itself afterwards.
ObjWriteKey ==
  /\ MoreOps
  /\ \E b \in Ids, key \in ChildKeys, first \in FailFrom :
       /\ Usable(b) /\ bld[b].kind = "obj"
       /\ Bind(obj_write_key(W0(first), Self(b), key), LAMBDA r :
            /\ Commit(r.w, "write_key", "obj", r.r)
            /\ bld' = [bld EXCEPT ![b] = Noted(b, r.self, r.r, SepItem(key, ItemStart(r.w)))])

ObjWriteComma ==
  /\ MoreOps
  /\ \E b \in Ids, first \in FailFrom :
       /\ Usable(b) /\ bld[b].kind = "obj"
       /\ Bind(obj_write_comma(W0(first), Self(b)), LAMBDA r :
            /\ Commit(r.w, "write_comma", "obj", r.r)
            /\ bld' = [bld EXCEPT ![b].empty = r.self.empty, ![b].manual = TRUE])

ArrWriteComma ==
  /\ MoreOps
  /\ \E b \in Ids, first \in FailFrom :
       /\ Usable(b) /\ bld[b].kind = "arr"
       /\ Bind(arr_write_comma(W0(first), Self(b)), LAMBDA r :
            /\ Commit(r.w, "write_comma", "arr", r.r)
            /\ bld' = [bld EXCEPT ![b] = Noted(b, r.self, r.r, SepItem(<<>>, ItemStart(r.w)))])

\* end(self): consumes the builder.
End ==
  /\ MoreOps
  /\ \E b \in Ids, first \in FailFrom :
       /\ Usable(b)
       /\ Bind(IF bld[b].kind = "obj" THEN obj_end(W0(first), Self(b))
                                      ELSE arr_end(W0(first), Self(b)), LAMBDA r :
            /\ Commit(r.w, "end", bld[b].kind, r.r)
            /\ bld' = [bld EXCEPT ![b].st = "ended"])

\* The builder goes out of scope without end(): Drop runs, and returns nothing.
Drop ==
  /\ MoreOps
  /\ \E b \in Ids, first \in FailFrom :
       /\ Usable(b)
       /\ Commit(IF bld[b].kind = "obj" THEN obj_drop(W0(first), Self(b))
                                        ELSE arr_drop(W0(first), Self(b)),
                 "drop", bld[b].kind, "none")
       /\ bld' = [bld EXCEPT ![b].st = "dropped"]

\* write_value(&mut buffer, value) on the sink itself
WriteValue ==
  /\ MoreOps /\ SinkFree
  /\ \E value \in TopValues, first \in FailFrom :
       Bind(write_value(W0(first), value), LAMBDA r :
         Commit(r.w, "write_value", "none", r.r))
  /\ UNCHANGED bld

\* write_part_of_string(&mut buffer, input) on the sink itself
WritePartOfString ==
  /\ MoreOps /\ SinkFree
  /\ \E input \in Keys, first \in FailFrom :
       Bind(write_part_of_string(W0(first), input, DataTag), LAMBDA r :
         Commit(r.w, "write_part_of_string", "none", r.r))
  /\ UNCHANGED bld

Next ==
  \/ WriteObject \/ WriteArray
  \/ ObjObject \/ ObjArray \/ ArrObject \/ ArrArray
  \/ ObjMember \/ ArrValue
  \/ ObjWriteKey \/ ObjWriteComma \/ ArrWriteComma
  \/ End \/ Drop
  \/ WriteValue \/ WritePartOfString

Spec == Init /\ [][Next]_vars

SpecFault == InitFault /\ [][Next]_vars

----------------------------------------------------------------------------
(* Streaming: the sink is a String that the caller drains to a file between   *)
(* operations, as in "Writing large files".                                   *)

\* the most times the caller drains the sink in one run
MaxDrains == 1

\* String::drain(0..written): the sink without its first `written` bytes
drain(w, written) ==
  [buf |-> SubSeq(w.buf, written + 1, Len(w.buf)),
   tag |-> SubSeq(w.tag, written + 1, Len(w.tag))]

\* let buffer = array.writer_mut(); let written = file.write(buffer.as_bytes())?;
\* drop(buffer.drain(0..written));
\* The file takes a part of what it is given: one byte, all but one, or all.
Drain ==
  /\ Len(dest) < MaxDrains
  /\ \E b \in Ids : Usable(b)
  /\ \E written \in {1, Len(sink.buf) - 1, Len(sink.buf)} \cap (1..Len(sink.buf)) :
       /\ dest' = Append(dest, SubSeq(sink.buf, 1, written))
       /\ sink' = drain(sink, written)
  /\ last' = [op |-> "drain", kind |-> "none", res |-> "none", att |-> <<>>]
  /\ UNCHANGED <<bld, health, nops, scan, enc>>

NextFlush ==
  \/ WriteObject \/ WriteArray
  \/ ObjArray \/ ArrObject
  \/ ObjMember \/ ArrValue
  \/ End \/ Drop
  \/ Drain

SpecFlush == Init /\ [][NextFlush]_vars

----------------------------------------------------------------------------
(* Elements composed by hand: write_comma() or write_key(), then the value    *)
(* written by the caller on the sink that writer_mut() returns.               *)

\* write_value(builder.writer_mut(), value): the builder is not told
WriterMutValue ==
  /\ MoreOps
  /\ \E b \in Ids, value \in Values, first \in FailFrom :
       /\ Usable(b)
       /\ Bind(write_value(IF bld[b].kind = "obj" THEN obj_writer_mut(W0(first), Self(b))
                                                  ELSE arr_writer_mut(W0(first), Self(b)),
                           value), LAMBDA r :
            /\ Commit(r.w, "writer_mut", bld[b].kind, r.r)
            /\ bld' = [bld EXCEPT ![b] = Noted(b, Self(b), r.r, RawItem(value, Len(sink.buf) + 1))])

NextManual ==
  \/ WriteObject \/ WriteArray
  \/ ObjObject \/ ArrArray
  \/ ObjMember \/ ArrValue
  \/ ObjWriteKey \/ ArrWriteComma
  \/ WriterMutValue
  \/ End

SpecManual == Init /\ [][NextManual]_vars

----------------------------------------------------------------------------
(* The escaping scan, one loop iteration at a time: write_string (quoted) or  *)
(* write_part_of_string (unquoted) on an input text, into a reliable sink.    *)

\* Characters of the input texts, each as its UTF-8 bytes: NUL, \b, \n, 0x1F,
\* ", /, \, a, DEL, a-umlaut (2 bytes), a CJK character (3 bytes).
EscChars ==
  { <<0>>, <<8>>, <<10>>, <<31>>, <<QUOTE>>, <<SLASH>>, <<BACKSLASH>>, <<97>>, <<127>>,
    <<195, 164>>, <<228, 184, 173>> }

RECURSIVE Flatten(_)
Flatten(ss) == IF ss = <<>> THEN <<>> ELSE Head(ss) \o Flatten(Tail(ss))

\* Every text of at most MaxLen of these characters, and every one-character
\* ASCII text.
EscInputs ==
  { Flatten(cs) : cs \in UNION { [1..n -> EscChars] : n \in 0..MaxLen } }
    \cup { <<b>> : b \in 0..127 }

InitEsc ==
  /\ sink = [buf |-> <<>>, tag |-> <<>>]
  /\ last = NoOp
  /\ bld = <<>>
  /\ health = "reliable"
  /\ nops = 0
  /\ enc = [pc |-> "idle"]
  /\ dest = <<>>
  /\ \E input \in EscInputs, quoted \in BOOLEAN :
       scan = [pc |-> "start", input |-> input, quoted |-> quoted, index |-> 0, nbw |-> 0,
               att |-> <<>>]

\* The sink after a step of the scan.
ScanWrote(r) == sink' = [buf |-> r.w.buf, tag |-> r.w.tag]

\* write_string: output_buffer.write_char('"')?; before the scan
ScanStart ==
  /\ scan.pc = "start"
  /\ Bind(IF scan.quoted THEN write_char(W0(0), QUOTE, DataTag) ELSE Ok(W0(0)), LAMBDA r :
       /\ ScanWrote(r)
       /\ scan' = [scan EXCEPT !.pc = "loop", !.att = r.w.att])
  /\ UNCHANGED <<last, bld, health, nops, enc, dest>>

\* one iteration of `while index < bytes.len()`
ScanStep ==
  /\ scan.pc = "loop" /\ scan.index < Len(scan.input)
  /\ Bind(ScanIter(W0(0), scan.input, scan.index, scan.nbw, DataTag), LAMBDA it :
       /\ ScanWrote(it)
       /\ scan' = [scan EXCEPT !.index = @ + 1, !.nbw = it.nbw, !.att = it.w.att])
  /\ UNCHANGED <<last, bld, health, nops, enc, dest>>

\* the loop is left: the trailing run is flushed, then write_string closes the quote
ScanExit ==
  /\ scan.pc = "loop" /\ ~(scan.index < Len(scan.input))
  /\ Bind(Bind(ScanTail(W0(0), scan.input, scan.nbw, DataTag), LAMBDA tl :
                IF scan.quoted THEN write_char(tl.w, QUOTE, DataTag) ELSE tl), LAMBDA r :
       /\ ScanWrote(r)
       /\ scan' = [scan EXCEPT !.pc = "done", !.att = r.w.att])
  /\ UNCHANGED <<last, bld, health, nops, enc, dest>>

NextEsc == ScanStart \/ ScanStep \/ ScanExit

SpecEsc == InitEsc /\ [][NextEsc]_vars

----------------------------------------------------------------------------
(* One call of to_json_string on a value: the encodings as pure functions.    *)

\* the most elements of a slice, Vec or map given to to_json_string
MaxItems == 2

\* what the containers hold
EncItems ==
  { VInt(1), VInt(0 - 7), VStr(<<97, 10>>), VBool(TRUE), VNull, VNone, VSome(VInt(42)),
    VSlice(<<>>), VSlice(<<VInt(1), VInt(2)>>), VMap(<<>>), VMap(<<<<KEY_ESC, VInt(1)>>>>) }

EncKeys == {KEY_NUMBER, KEY_ESC, <<97>>}

ItemSeqs == UNION { [1..n -> EncItems] : n \in 0..MaxItems }

\* a map holds a key once; its iteration order is any order (HashMap) or the
\* sorted one (BTreeMap), both among these
PairSeqs ==
  { ps \in UNION { [1..n -> EncKeys \X EncItems] : n \in 0..MaxItems } :
      \A i, j \in 1..Len(ps) : i # j => ps[i][1] # ps[j][1] }

EncValues ==
  EncItems
    \cup { VStr(s) : s \in EscInputs }
    \cup { VF64(f) : f \in Floats(F64_SIGNIFICAND) }
    \cup { VF32(f) : f \in Floats(F32_SIGNIFICAND) }
    \cup { VSlice(items) : items \in ItemSeqs }
    \cup { VVec(items) : items \in ItemSeqs }
    \cup { VMap(pairs) : pairs \in PairSeqs }

InitEnc ==
  /\ sink = [buf |-> <<>>, tag |-> <<>>]
  /\ last = NoOp
  /\ bld = <<>>
  /\ health = "reliable"
  /\ nops = 0
  /\ scan = [pc |-> "idle"]
  /\ dest = <<>>
  /\ \E value \in EncValues : enc = [pc |-> "ready", value |-> value]

\* to_json_string(value): value.write_json(&mut result) on a new String
ToJsonString ==
  /\ enc.pc = "ready"
  /\ ScanWrote(write_value(W0(0), enc.value))
  /\ enc' = [enc EXCEPT !.pc = "done"]
  /\ UNCHANGED <<last, bld, health, nops, scan, dest>>

NextEnc == ToJsonString

SpecEnc == InitEnc /\ [][NextEnc]_vars

----------------------------------------------------------------------------
(* The escape table as documented, byte by byte *)

UpperHex(d) == IF d < 10 THEN 48 + d ELSE 55 + d

Image(b) ==
  CASE b = 34 -> <<92, 34>>
    [] b = 92 -> <<92, 92>>
    [] b = 47 -> <<92, 47>>
    [] b = 8 -> <<92, 98>>
    [] b = 12 -> <<92, 102>>
    [] b = 10 -> <<92, 110>>
    [] b = 13 -> <<92, 114>>
    [] b = 9 -> <<92, 116>>
    [] b < 32 /\ b \notin {8, 9, 10, 12, 13} ->
         <<92, 117, 48, 48, UpperHex(b \div 16), UpperHex(b % 16)>>
    [] OTHER -> <<b>>

RECURSIVE Images(_)
Images(s) == IF s = <<>> THEN <<>> ELSE Image(Head(s)) \o Images(Tail(s))

QuoteIf(q, body) == IF q THEN <<34>> \o body \o <<34>> ELSE body

\* C8: the escaped body written by the scan is the in-order concatenation of the
\* per-byte images of the escape table (no byte dropped, duplicated or reordered),
\* and the quoted form is that body between two '"'.  While the scan runs, what is
\* written plus the pending run [num_bytes_written, index) is the image of the
\* scanned prefix.
C8_EscapedBodyIsImageConcat ==
  /\ scan.pc = "done" => sink.buf = QuoteIf(scan.quoted, Images(scan.input))
  /\ scan.pc = "loop" =>
       sink.buf \o SubSeq(scan.input, scan.nbw + 1, scan.index)
         = (IF scan.quoted THEN <<34>> ELSE <<>>)
             \o Images(SubSeq(scan.input, 1, scan.index))

\* a, newline, a-umlaut: a run, an escape, a multi-byte tail
C8_Witness ==
  /\ scan.pc = "done" /\ ~scan.quoted
  /\ scan.input = <<97, 10, 195, 164>>
  /\ sink.buf = <<97, 92, 110, 195, 164>>

\* C9: for every byte b < 0x20, the literal written for the one-character string b
\* has a body that begins with '\' followed by a short-escape letter (b, f, n, r, t)
\* or by u00XX, XX the two uppercase hexadecimal digits of b, high nibble first.
C9_ControlCharactersEscaped ==
  (scan.pc = "done" /\ Len(scan.input) = 1 /\ scan.input[1] < 32) =>
    LET b == scan.input[1]
        body == IF scan.quoted THEN SubSeq(sink.buf, 2, Len(sink.buf) - 1) ELSE sink.buf
    IN /\ scan.quoted => (sink.buf[1] = 34 /\ sink.buf[Len(sink.buf)] = 34)
       /\ Len(body) >= 2
       /\ body[1] = 92
       /\ \/ body[2] \in {98, 102, 110, 114, 116}
          \/ SubSeq(body, 2, 6) = <<117, 48, 48, UpperHex(b \div 16), UpperHex(b % 16)>>

\* the string 0x1F is written as "\u001F"
C9_Witness ==
  /\ scan.pc = "done" /\ scan.quoted
  /\ scan.input = <<31>>
  /\ sink.buf = <<34, 92, 117, 48, 48, 49, 70, 34>>

----------------------------------------------------------------------------
(* Reading the sink: who wrote what, and where *)

Pos == 1..Len(sink.buf)

\* the positions of the bytes builder b wrote in the given role / in any role
At(role, b) == {i \in Pos : sink.tag[i] = Tag(role, b)}
By(b) == {i \in Pos : sink.tag[i].by = b}

OpenPos(b) == CHOOSE i \in Pos : sink.tag[i] = Tag("open", b)
ClosePos(b) == CHOOSE i \in Pos : sink.tag[i] = Tag("close", b)

\* the bracket bytes written as brackets (by a builder of the caller or of a
\* container encoding), not the ones inside string data
Structural == {i \in Pos : sink.tag[i].role \in {"open", "close"}}
CountOf(c) == Cardinality({i \in Structural : sink.buf[i] = c})

\* The standard matching check over the structural brackets from position i on,
\* with stk the brackets open so far: what is left open, or <<0>> on a mismatch.
RECURSIVE Unmatched(_, _)
Unmatched(i, stk) ==
  IF i > Len(sink.buf) THEN stk
  ELSE IF sink.tag[i].role = "open" THEN Unmatched(i + 1, Append(stk, sink.buf[i]))
  ELSE IF sink.tag[i].role = "close"
    THEN IF stk # <<>> /\ sink.buf[i] = (IF stk[Len(stk)] = 123 THEN 125 ELSE 93)
           THEN Unmatched(i + 1, SubSeq(stk, 1, Len(stk) - 1))
           ELSE <<0>>
  ELSE Unmatched(i + 1, stk)

RECURSIVE Ascending(_)
Ascending(S) ==
  IF S = {} THEN <<>>
  ELSE LET m == CHOOSE x \in S : \A y \in S : x <= y IN <<m>> \o Ascending(S \ {m})

\* the opening brackets of the builders still alive, outermost first
LiveOpeners ==
  LET ids == Ascending({b \in Ids : Live(b)})
  IN [k \in 1..Len(ids) |-> IF bld[ids[k]].kind = "obj" THEN 123 ELSE 91]

\* C1: for any sequence of builder operations (appends, nested opens, end(), drop
\* of any builder), once every builder has terminated the structural brackets
\* in the sink are balanced ('{' as many as '}', '[' as many as ']') and properly
\* nested; and at any moment the brackets still open are exactly those of the
\* builders still alive, outermost first.  (On a sink that accepts every write.)
C1_BracketBalance ==
  /\ SinkFree => /\ Unmatched(1, <<>>) = <<>>
                 /\ CountOf(123) = CountOf(125)
                 /\ CountOf(91) = CountOf(93)
  /\ Unmatched(1, <<>>) = LiveOpeners

\* every builder has terminated, a nested one among them by being dropped
C1_Witness ==
  /\ SinkFree
  /\ \E c \in Ids : bld[c].parent # 0 /\ bld[c].st = "dropped"

\* C2: every builder writes its opening bracket exactly once, before anything
\* else it writes, and its closing bracket exactly once: none while it is alive,
\* one when it has terminated, by end() or by drop, each of which makes a single
\* write; a terminated builder writes nothing after its closing bracket.
C2_BracketsOncePerBuilder ==
  /\ \A b \in Ids :
       /\ Cardinality(At("open", b)) = 1
       /\ \A i \in By(b) : i >= OpenPos(b)
       /\ Live(b) => At("close", b) = {}
       /\ ~Live(b) => /\ Cardinality(At("close", b)) = 1
                      /\ \A i \in By(b) : i <= ClosePos(b)
  /\ last.op \in {"end", "drop"} =>
       /\ Len(last.att) = 1
       /\ last.att[1].tg.role = "close"

\* one builder closed by end() and another by drop
C2_Witness ==
  \E b, c \in Ids : bld[b].st = "ended" /\ bld[c].st = "dropped"

RECURSIVE Within(_, _)
Within(b, c) == b = c \/ (b \in Ids /\ bld[b].parent # 0 /\ Within(bld[b].parent, c))

SpanEnd(c) == IF Live(c) THEN Len(sink.buf) ELSE ClosePos(c)

\* C4: the builders alive form one chain, so that only one of them, the
\* innermost, has no live child and can be operated on; and everything between a
\* builder's opening bracket and its closing bracket (the end of the sink while
\* it is alive) was written by it, by builders made within it or by the values
\* given to them: no ancestor's output is interleaved, and a builder writes
\* nowhere else.
C4_SingleActiveChild ==
  /\ Cardinality({b \in Ids : Live(b) /\ ~\E c \in Ids : Live(c) /\ bld[c].parent = b}) <= 1
  /\ Cardinality({b \in Ids : Live(b) /\ bld[b].parent = 0}) <= 1
  /\ \A c \in Ids :
       /\ \A i \in OpenPos(c)..SpanEnd(c) : sink.tag[i].by = 0 \/ Within(sink.tag[i].by, c)
       /\ By(c) \subseteq OpenPos(c)..SpanEnd(c)

\* a child has terminated and its parent has written after it
C4_Witness ==
  \E c \in Ids :
    /\ bld[c].parent # 0 /\ ~Live(c)
    /\ \E i \in By(bld[c].parent) : i > ClosePos(c) /\ sink.tag[i].role # "close"

----------------------------------------------------------------------------
(* What a finished builder should have written, from what was appended to it *)

RECURSIVE Render(_)
RECURSIVE RenderItems(_, _)

\* the members of b from the k-th on: "key":value, separated by commas, in the
\* order they were appended
RenderItems(b, k) ==
  LET h == bld[b].hist
  IN IF k > Len(h) THEN <<>>
     ELSE (IF k > 1 THEN <<44>> ELSE <<>>)
          \o (IF bld[b].kind = "obj" THEN <<34>> \o Images(h[k].k) \o <<34, 58>> ELSE <<>>)
          \o (IF h[k].t = "leaf" THEN to_json_string(h[k].v) ELSE Render(h[k].c))
          \o RenderItems(b, k + 1)

Render(b) ==
  IF bld[b].kind = "obj" THEN <<123>> \o RenderItems(b, 1) \o <<125>>
                         ELSE <<91>> \o RenderItems(b, 1) \o <<93>>

\* b and the builders made within it have terminated and got their content
\* through member(), value(), object() and array() alone
RECURSIVE Finished(_)
Finished(b) ==
  /\ ~Live(b) /\ ~bld[b].manual
  /\ \A k \in 1..Len(bld[b].hist) :
       bld[b].hist[k].t = "child" => Finished(bld[b].hist[k].c)

\* C10: what an object builder has written is '{', its members as "key":value in
\* the order they were appended, separated by commas, and '}'; a member is never
\* rejected, merged or dropped for having the key of an earlier member.
C10_MembersInAppendOrder ==
  /\ \A b \in Ids :
       (bld[b].kind = "obj" /\ Finished(b)) =>
         SubSeq(sink.buf, OpenPos(b), ClosePos(b)) = Render(b)
  /\ last.op = "member" => last.res = "ok"

\* member("number", 42), member("number", 43), end(): {"number":42,"number":43}
C10_Witness ==
  /\ Len(bld) = 1 /\ bld[1].st = "ended"
  /\ sink.buf = <<123, 34, 110, 117, 109, 98, 101, 114, 34, 58, 52, 50, 44,
                  34, 110, 117, 109, 98, 101, 114, 34, 58, 52, 51, 125>>

----------------------------------------------------------------------------
(* Write failures *)

\* C5: an operation returns a write failure if and only if a sink write that it
\* made failed, the writes of a container encoding included, from its opening
\* bracket to its closing bracket.
C5_FailureIffWriteFailed ==
  last.res \in {"ok", "err"} => (last.res = "err" <=> Failed(last.att))

\* C6, as claimed: once a write has failed in an operation, the operation attempts
\* no further write.
C6_NoWriteAfterFailure ==
  \A i \in 1..Len(last.att) : ~last.att[i].ok => i = Len(last.att)

\* C6, amended: no write is retried, and once a write other than the closing
\* bracket of a slice, Vec or map encoding has failed in an operation, the only
\* writes the operation still attempts are the closing brackets of the container
\* encodings it had opened, written when their builders are dropped, and the
\* operation returns the failure.  (The failure of such a closing bracket is
\* itself discarded and stops nothing.)
C6_OnlyClosersAfterFailure ==
  LET Closer(a) == a.tg = Tag("close", 0) /\ a.s \in {<<125>>, <<93>>}
      Aborting(i) == ~last.att[i].ok /\ ~Closer(last.att[i])
  IN /\ \A i \in 1..Len(last.att) :
          Aborting(i) => \A j \in (i + 1)..Len(last.att) : Closer(last.att[j])
     /\ ((\E i \in 1..Len(last.att) : Aborting(i)) /\ last.op # "drop") => last.res = "err"

\* an element of a slice was rejected and the closing bracket was attempted all
\* the same
C6_Witness ==
  /\ last.res = "err"
  /\ \E i \in 1..Len(last.att) :
       /\ ~last.att[i].ok /\ last.att[i].tg.role = "data"
       /\ i < Len(last.att)

\* C7: end() makes exactly one write, the closing bracket of the builder, and
\* returns the result of that write; drop makes the same single write and
\* returns nothing.
C7_EndWritesOnceAndReports ==
  LET closer == IF last.kind = "obj" THEN <<125>> ELSE <<93>>
  IN /\ last.op = "end" =>
          /\ Len(last.att) = 1 /\ last.att[1].s = closer
          /\ last.res = (IF last.att[1].ok THEN "ok" ELSE "err")
     /\ last.op = "drop" =>
          /\ Len(last.att) = 1 /\ last.att[1].s = closer
          /\ last.res = "none"

\* end() on an object whose closing bracket the sink rejected
C7_Witness ==
  /\ last.op = "end" /\ last.kind = "obj" /\ last.res = "err"
  /\ ~last.att[1].ok

----------------------------------------------------------------------------
(* The container encodings *)

\* the encodings of the elements from the i-th on, with a comma between two
RECURSIVE JoinItems(_, _)
JoinItems(items, i) ==
  IF i > Len(items) THEN <<>>
  ELSE (IF i > 1 THEN <<44>> ELSE <<>>) \o to_json_string(items[i]) \o JoinItems(items, i + 1)

\* the "key":value pairs from the i-th on, with a comma between two
RECURSIVE JoinPairs(_, _)
JoinPairs(pairs, i) ==
  IF i > Len(pairs) THEN <<>>
  ELSE (IF i > 1 THEN <<44>> ELSE <<>>)
       \o <<34>> \o Images(pairs[i][1]) \o <<34, 58>> \o to_json_string(pairs[i][2])
       \o JoinPairs(pairs, i + 1)

\* C11: a slice or Vec is written as '[', the encodings of its elements in
\* iteration order separated by single commas, and ']', with nothing else; a map
\* as '{', its "key":value pairs in iteration order separated by commas, and '}';
\* an empty one as [] or {}.
C11_ContainerEncoding ==
  enc.pc = "done" =>
    /\ enc.value.kind \in {"slice", "vec"} =>
         sink.buf = <<91>> \o JoinItems(enc.value.items, 1) \o <<93>>
    /\ enc.value.kind = "map" =>
         sink.buf = <<123>> \o JoinPairs(enc.value.pairs, 1) \o <<125>>
    /\ enc.value \in {VSlice(<<>>), VVec(<<>>)} => sink.buf = <<91, 93>>
    /\ enc.value = VMap(<<>>) => sink.buf = <<123, 125>>

\* a Vec of two elements, the second a slice: [-7,[1,2]]
C11_Witness ==
  /\ enc.pc = "done"
  /\ enc.value = VVec(<<VInt(0 - 7), VSlice(<<VInt(1), VInt(2)>>)>>)
  /\ sink.buf = <<91, 45, 55, 44, 91, 49, 44, 50, 93, 93>>

----------------------------------------------------------------------------
(* Floating point *)

\* the significand limit of the value's own type
OwnFormat(v) == IF v.kind = "f32" THEN F32_SIGNIFICAND ELSE F64_SIGNIFICAND

\* C12: a NaN or an infinity is encoded as null; a finite f32 or f64 as the
\* shortest decimal text that parses back to it in its type, without a trailing
\* ".0" (2.0 as 2, 0.0 as 0, -2.0 as -2).
C12_FloatNormalization ==
  (enc.pc = "done" /\ enc.value.kind \in {"f32", "f64"}) =>
    IF is_finite(enc.value.f)
      THEN sink.buf = strip_dot0(ShortestText(OwnFormat(enc.value), enc.value.f))
      ELSE sink.buf = NULL_STR

----------------------------------------------------------------------------
(* A JSON parser (RFC 8259, without white space), to read back what was       *)
(* written.  A result is [ok, v, pos]: the value and the next position.       *)

JStr(s) == [t |-> "string", s |-> s]
JNum(n) == [t |-> "number", n |-> n]
JBool(b) == [t |-> "bool", b |-> b]
JNull == [t |-> "null"]
JArr(items) == [t |-> "array", items |-> items]
JObj(members) == [t |-> "object", members |-> members]

ParseFail == [ok |-> FALSE]
Parsed(v, pos) == [ok |-> TRUE, v |-> v, pos |-> pos]

HexVal(c) ==
  IF c \in 48..57 THEN c - 48
  ELSE IF c \in 65..70 THEN c - 55
  ELSE IF c \in 97..102 THEN c - 87
  ELSE 0 - 1

\* what follows the backslash of a two-character escape, and the byte it stands for
Unescaped(c) ==
  CASE c = 34 -> 34 [] c = 92 -> 92 [] c = 47 -> 47
    [] c = 98 -> 8 [] c = 102 -> 12 [] c = 110 -> 10 [] c = 114 -> 13 [] c = 116 -> 9
    [] OTHER -> 0 - 1

Utf8(cp) ==
  IF cp < 128 THEN <<cp>>
  ELSE IF cp < 2048 THEN <<192 + (cp \div 64), 128 + (cp % 64)>>
  ELSE <<224 + (cp \div 4096), 128 + ((cp \div 64) % 64), 128 + (cp % 64)>>

\* the characters of a string literal from position i on, after the opening quote
RECURSIVE ParseChars(_, _, _)
ParseChars(buf, i, acc) ==
  IF i > Len(buf) THEN ParseFail
  ELSE IF buf[i] = 34 THEN Parsed(JStr(acc), i + 1)
  ELSE IF buf[i] < 32 THEN ParseFail
  ELSE IF buf[i] # 92 THEN ParseChars(buf, i + 1, Append(acc, buf[i]))
  ELSE IF i + 1 > Len(buf) THEN ParseFail
  ELSE IF buf[i + 1] = 117
    THEN IF i + 5 > Len(buf) \/ \E k \in 2..5 : HexVal(buf[i + k]) < 0
           THEN ParseFail
           ELSE ParseChars(buf, i + 6,
                  acc \o Utf8(4096 * HexVal(buf[i + 2]) + 256 * HexVal(buf[i + 3])
                              + 16 * HexVal(buf[i + 4]) + HexVal(buf[i + 5])))
  ELSE IF Unescaped(buf[i + 1]) < 0 THEN ParseFail
  ELSE ParseChars(buf, i + 2, Append(acc, Unescaped(buf[i + 1])))

ParseString(buf, i) ==
  IF i <= Len(buf) /\ buf[i] = 34 THEN ParseChars(buf, i + 1, <<>>) ELSE ParseFail

\* the digits from position i on, as the number they write after acc
RECURSIVE ParseDigits(_, _, _)
ParseDigits(buf, i, acc) ==
  IF i <= Len(buf) /\ buf[i] \in 48..57
    THEN ParseDigits(buf, i + 1, 10 * acc + (buf[i] - 48))
    ELSE Parsed(JNum(acc), i)

IsDigitAt(buf, i) == i <= Len(buf) /\ buf[i] \in 48..57

ParseNumber(buf, i) ==
  IF buf[i] = 45
    THEN IF IsDigitAt(buf, i + 1)
           THEN Bind(ParseDigits(buf, i + 1, 0), LAMBDA p : Parsed(JNum(0 - p.v.n), p.pos))
           ELSE ParseFail
    ELSE ParseDigits(buf, i, 0)

ParseLiteral(buf, i, text, v) ==
  IF i + Len(text) - 1 <= Len(buf) /\ SubSeq(buf, i, i + Len(text) - 1) = text
    THEN Parsed(v, i + Len(text))
    ELSE ParseFail

RECURSIVE ParseValue(_, _)
RECURSIVE ParseElements(_, _, _)
RECURSIVE ParseMembers(_, _, _)

\* value (',' value)* ']' from position i on
ParseElements(buf, i, acc) ==
  Bind(ParseValue(buf, i), LAMBDA p :
    IF ~p.ok \/ p.pos > Len(buf) THEN ParseFail
    ELSE IF buf[p.pos] = 93 THEN Parsed(JArr(Append(acc, p.v)), p.pos + 1)
    ELSE IF buf[p.pos] = 44 THEN ParseElements(buf, p.pos + 1, Append(acc, p.v))
    ELSE ParseFail)

\* string ':' value (',' string ':' value)* '}' from position i on
ParseMembers(buf, i, acc) ==
  Bind(ParseString(buf, i), LAMBDA k :
    IF ~k.ok \/ k.pos > Len(buf) \/ buf[k.pos] # 58 THEN ParseFail
    ELSE Bind(ParseValue(buf, k.pos + 1), LAMBDA p :
      IF ~p.ok \/ p.pos > Len(buf) THEN ParseFail
      ELSE IF buf[p.pos] = 125 THEN Parsed(JObj(Append(acc, <<k.v.s, p.v>>)), p.pos + 1)
      ELSE IF buf[p.pos] = 44 THEN ParseMembers(buf, p.pos + 1, Append(acc, <<k.v.s, p.v>>))
      ELSE ParseFail))

ParseValue(buf, i) ==
  IF i > Len(buf) THEN ParseFail
  ELSE IF buf[i] = 34 THEN ParseString(buf, i)
  ELSE IF buf[i] = 45 \/ buf[i] \in 48..57 THEN ParseNumber(buf, i)
  ELSE IF buf[i] = 116 THEN ParseLiteral(buf, i, <<116, 114, 117, 101>>, JBool(TRUE))
  ELSE IF buf[i] = 102 THEN ParseLiteral(buf, i, <<102, 97, 108, 115, 101>>, JBool(FALSE))
  ELSE IF buf[i] = 110 THEN ParseLiteral(buf, i, <<110, 117, 108, 108>>, JNull)
  ELSE IF buf[i] = 91
    THEN IF i + 1 <= Len(buf) /\ buf[i + 1] = 93 THEN Parsed(JArr(<<>>), i + 2)
         ELSE ParseElements(buf, i + 1, <<>>)
  ELSE IF buf[i] = 123
    THEN IF i + 1 <= Len(buf) /\ buf[i + 1] = 125 THEN Parsed(JObj(<<>>), i + 2)
         ELSE ParseMembers(buf, i + 1, <<>>)
  ELSE ParseFail

\* the JSON value a value stands for: None is null, Some(v) is v, a slice or Vec
\* an array, a map an object with its members in iteration order
RECURSIVE JsonOf(_)
JsonOf(v) ==
  CASE v.kind = "str" -> JStr(v.s)
    [] v.kind = "int" -> JNum(v.i)
    [] v.kind = "bool" -> JBool(v.b)
    [] v.kind \in {"null", "none"} -> JNull
    [] v.kind = "some" -> JsonOf(v.v)
    [] v.kind \in {"slice", "vec"} -> JArr([k \in 1..Len(v.items) |-> JsonOf(v.items[k])])
    [] v.kind = "map" ->
         JObj([k \in 1..Len(v.pairs) |-> <<v.pairs[k][1], JsonOf(v.pairs[k][2])>>])

\* C13: the text written for a value (text, boolean, null, integer, optional,
\* sequence, mapping) is one JSON text, and parsing it gives the value back; in
\* particular un-escaping a written string literal gives the original text.
C13_RoundTrip ==
  (enc.pc = "done" /\ enc.value.kind \notin {"f32", "f64"}) =>
    ParseValue(sink.buf, 1) = Parsed(JsonOf(enc.value), Len(sink.buf) + 1)

\* the text of a quote, a three-byte character and NUL: "\"...\u0000"
C13_Witness ==
  /\ enc.pc = "done"
  /\ enc.value = VStr(<<34, 228, 184, 173, 0>>)
  /\ sink.buf = <<34, 92, 34, 228, 184, 173, 92, 117, 48, 48, 48, 48, 34>>

----------------------------------------------------------------------------
(* Streaming with manual flush *)

\* everything written so far: what was drained, then what the sink still holds
Whole == Flatten(dest) \o sink.buf

\* what the root builders from the b-th builder on write when nothing is drained
RECURSIVE RenderRoots(_)
RenderRoots(b) ==
  IF b > Len(bld) THEN <<>>
  ELSE (IF bld[b].parent = 0 THEN Render(b) ELSE <<>>) \o RenderRoots(b + 1)

\* C14: whatever prefix of the sink the caller drains between operations, once
\* the builders have terminated the drained bytes followed by the rest of the
\* sink are what the same appends write into a sink that is never drained: a
\* builder's output does not depend on what the sink holds.
C14_DrainedOutputIsSame ==
  (SinkFree /\ \A b \in Ids : bld[b].parent = 0 => Finished(b)) =>
    Whole = RenderRoots(1)

\* an array drained between its first and its second element
C14_Witness ==
  /\ Len(bld) = 1 /\ bld[1].st = "ended" /\ bld[1].n = 2
  /\ dest = << <<91, 52, 50>> >>
  /\ sink.buf = <<44, 52, 51, 93>>

----------------------------------------------------------------------------
(* Append only *)

\* C15: every operation, whether it succeeds or fails, leaves what the sink held
\* before it as a prefix of what the sink holds after it: nothing already
\* written is removed or rewritten.
C15_AppendOnly ==
  [][/\ Len(sink.buf) <= Len(sink'.buf)
     /\ SubSeq(sink'.buf, 1, Len(sink.buf)) = sink.buf]_vars

\* an operation on a sink that already held something wrote a part of its
\* output and then failed
C15_Witness ==
  /\ last.res = "err"
  /\ Len(last.att) >= 2 /\ last.att[1].ok /\ ~last.att[Len(last.att)].ok
  /\ \E i \in 1..Len(sink.buf) : sink.tag[i].role = "open" /\ sink.tag[i].by # 0

----------------------------------------------------------------------------
(* The low-level operations *)

\* the steps of b that start an element (member, value, object, array, and the
\* separator steps made by hand), and the values written by hand
Starts(b) == {k \in 1..Len(bld[b].hist) : bld[b].hist[k].t \in {"leaf", "child", "sep"}}
Raws(b) == {k \in 1..Len(bld[b].hist) : bld[b].hist[k].t = "raw"}
Seps(b) == {k \in 1..Len(bld[b].hist) : bld[b].hist[k].t = "sep"}

\* a separator step was made by hand and its value has not been written yet
Owing(b) == Len(bld[b].hist) \in Seps(b)

\* every separator step made by hand is followed at once by its one value
\* (the last one may still be owed)
SepsHaveValue(b) == \A k \in Seps(b) : k = Len(bld[b].hist) \/ k + 1 \in Raws(b)

\* every value written by hand follows its separator step at once
RawsHaveSep(b) == \A k \in Raws(b) : k - 1 \in Seps(b)

\* the low-level operations used as required
Disciplined(b) ==
  /\ SepsHaveValue(b) /\ RawsHaveSep(b)
  /\ ~Live(b) => ~Owing(b)

----------------------------------------------------------------------------
(* The cursors of the escaping scan *)

\* str::is_char_boundary: the start, the end, or a byte that is no continuation byte
IsCharBoundary(input, i) ==
  \/ i = 0 \/ i = Len(input)
  \/ (i < Len(input) /\ ~(input[i + 1] \in 128..191))

\* The write_str calls of the step just taken that flush a pending run: all but
\* the escape sequence (in the loop), all but the closing quote (after it).
RunsOfStep ==
  LET att == scan'.att
      last_is_no_run == scan'.pc = "loop" \/ scan.quoted
  IN IF last_is_no_run /\ att # <<>> THEN SubSeq(att, 1, Len(att) - 1) ELSE att

\* where the pending run of the step just taken ends: index, or the end of the input
RunEnd == IF scan'.pc = "loop" THEN scan.index ELSE Len(scan.input)

\* C17: throughout the scan 0 <= num_bytes_written <= index <= len(input); every
\* iteration increases index, which never passes len(input), so the loop ends;
\* every pending run that is flushed is input[num_bytes_written..index) (or up
\* to the end of the input, after the loop), is not empty, lies inside the
\* input, and starts and ends on UTF-8 character boundaries.
C17_ScanCursors ==
  /\ [](scan.pc \in {"loop", "done"} =>
         (0 <= scan.nbw /\ scan.nbw <= scan.index /\ scan.index <= Len(scan.input)))
  /\ [][scan.pc = "loop" =>
         /\ scan'.pc = "loop" => (scan.index < Len(scan.input) /\ scan'.index > scan.index)
         /\ scan'.pc = "done" => scan.index = Len(scan.input)
         /\ Len(RunsOfStep) <= 1
         /\ \A k \in 1..Len(RunsOfStep) :
              /\ RunsOfStep[k].s # <<>>
              /\ 0 <= scan.nbw /\ scan.nbw < RunEnd /\ RunEnd <= Len(scan.input)
              /\ RunsOfStep[k].s = SubSeq(scan.input, scan.nbw + 1, RunEnd)
              /\ IsCharBoundary(scan.input, scan.nbw)
              /\ IsCharBoundary(scan.input, RunEnd)]_vars

\* a-umlaut, newline, a three-byte character: the run flushed before the escape
\* is the two bytes of a-umlaut, and the scan is now inside the last character
C17_Witness ==
  /\ scan.pc = "loop" /\ scan.input = <<195, 164, 10, 228, 184, 173>>
  /\ scan.index = 4 /\ scan.nbw = 3
  /\ sink.buf = <<195, 164, 92, 110>>

----------------------------------------------------------------------------
(* A rejected opening bracket *)

Creators == {"write_object", "write_array", "object", "array"}

\* C18: when a write of write_object, write_array, object() or array() is
\* rejected (the opening bracket, or the separator or key before it, after
\* which the bracket is not attempted), the operation returns the failure, no
\* opening bracket reaches the sink and no builder is created, and every
\* builder that was usable before, the parent included, is usable after; a
\* closing bracket is only ever attempted for a builder that exists and whose
\* opening bracket is in the sink.
C18_RejectedOpener ==
  /\ [](\A i \in 1..Len(last.att) :
          (last.att[i].tg.role = "close" /\ last.att[i].tg.by # 0) =>
            (last.att[i].tg.by \in Ids /\ At("open", last.att[i].tg.by) # {}))
  /\ [][(last'.op \in Creators /\ Failed(last'.att)) =>
         /\ last'.res = "err"
         /\ Len(bld') = Len(bld)
         /\ \A i \in 1..Len(last'.att) : last'.att[i].tg.role = "open" => ~last'.att[i].ok
         /\ \A i \in 1..Len(sink'.buf) : sink'.tag[i] # Tag("open", Len(bld) + 1)
         /\ \A b \in Ids : Usable(b) => Usable(b)']_vars

\* object() on an array: the comma went through, the opening bracket was
\* rejected, and the array is still usable
C18_Witness ==
  /\ last.op = "object" /\ last.kind = "arr" /\ last.res = "err"
  /\ Len(last.att) = 2 /\ last.att[1].ok
  /\ last.att[2].tg.role = "open" /\ ~last.att[2].ok
  /\ Len(bld) = 1 /\ Usable(1)

====
